---- MODULE Spec2Model ----
(***************************************************************************)
(* Model of the generated non-functional property "relationship"           *)
(* (RelationshipProperty and RelationshipPropertyIterator) of go-fed       *)
(* activity: the slot heap, the container's slice of slot pointers, the    *)
(* container and slot operations, and the decode / encode entry points.    *)
(*                                                                         *)
(* Go pointers are modelled as options: <<>> is nil, <<x>> points to x.    *)
(* Slot objects live in a heap indexed 1..Len(heap); the container's       *)
(* "properties" slice is a sequence of heap indices, so slot identity      *)
(* (two positions holding the same pointer) is observable.                 *)
(***************************************************************************)
EXTENDS Integers, Sequences, FiniteSets, TLC

VARIABLES heap, properties, ret, iter, cont, din, dout, other, gen

vars == <<heap, properties, ret, iter, cont, din, dout, other, gen>>

(* ------------------------------ bounds -------------------------------- *)

\* Number of slot objects ever allocated in one behaviour.
MaxAlloc == 3

\* Longest array handed to the decoder / longest container encoded.
MaxList == 2

\* Kinds a generated property permits at most.
MaxKinds == 2

(* ------------------------- values and inputs -------------------------- *)

None == <<>>

Some(x) == <<x>>

\* The vocabulary namespace key of the alias maps.
AS == "https://www.w3.org/TR/activitystreams-vocabulary"

Term == "relationship"

\* The container a parent back-reference points to.
This == "this"

NoParent == "nil"

\* Structured values (vocab.ObjectInterface implementations) used as inputs.
Objects == {"o1", "o2"}

\* Structured values handed to the container's Append / Prepend / Set.
ContainerObjects == {"o2"}

\* A structured value whose Serialize returns an error.
FailingObjects == {"o3"}

\* The error of a structured value's Serialize().
ObjSerializeErr(o) == o \in FailingObjects

\* JSONLDContext() of a structured value: the alias it was decoded with.
ObjJSONLDContext(o) ==
  IF o = "o1" THEN (AS :> "") ELSE (AS :> "as" @@ "https://w3id.org/security/v1" :> "sec")

\* Serialize() of a structured value: a JSON object, named by its type.
ObjSerialize(o) == [t |-> "map", v |-> o]

\* *url.URL values handed to the API.
URLs == { [Scheme |-> "https", Host |-> "ex", Path |-> "/1"],
          [Scheme |-> "https", Host |-> "ex", Path |-> "/2"] }

\* References handed to the container's Append / Prepend / SetIRI.
ContainerURLs == {[Scheme |-> "https", Host |-> "ex", Path |-> "/1"]}

\* url.URL.String(): scheme ":" then "//" host then path.
UrlString(u) ==
  (IF u.Scheme # "" THEN u.Scheme \o ":" ELSE "")
    \o (IF (u.Scheme # "" \/ u.Host # "") /\ (u.Host # "" \/ u.Path # "")
          THEN "//" ELSE "")
    \o u.Host \o u.Path

\* Strings arriving in decoded JSON.
Strings == {"https://ex/1", "HTTPS://ex/2", "%zz"}

\* url.Parse: lower-cases the scheme; an invalid percent escape is an error.
\* Returns <<u>> on success and <<>> on error.
UrlParse(s) ==
  CASE s = "https://ex/1" -> Some([Scheme |-> "https", Host |-> "ex", Path |-> "/1"])
    [] s = "HTTPS://ex/2" -> Some([Scheme |-> "https", Host |-> "ex", Path |-> "/2"])
    [] OTHER -> None

\* Raw []byte payloads.
Payloads == {"b1", "b2"}

\* JSON objects in the input: the encoding of a structured value, named by
\* that value, or an object of a type the vocabulary does not know.
MapTypes == Objects \cup {"Unknown42"}

\* One unmarshalled element (interface{}): a Go dynamic type tag and a value.
Elements ==
  [t : {"string"}, v : Strings] \cup [t : {"map"}, v : MapTypes]
    \cup [t : {"bytes"}, v : Payloads] \cup [t : {"number"}, v : {"42"}]

\* mgr.DeserializeObjectActivityStreams()(m, aliasMap): the structured-value
\* decoder. It decodes the encoding of a structured value back to that value
\* and rejects any other object, returning a nil value with the error.
DeserializeObjectActivityStreams(mt) ==
  IF mt \in Objects THEN [v |-> Some(mt), err |-> FALSE]
  ELSE [v |-> None, err |-> TRUE]

EmptyMap == [k \in {} |-> ""]

\* Alias maps handed to the decoder.
AliasMaps == { EmptyMap, (AS :> "as") }

(* ------------------------------- slots -------------------------------- *)

\* RelationshipPropertyIterator struct.
Slot(obj, unk, iri, al, idx, par) ==
  [ObjectMember |-> obj, unknown |-> unk, iri |-> iri, alias |-> al,
   myIdx |-> idx, parent |-> par]

NewRelationshipPropertyIterator == Slot(None, None, None, "", 0, NoParent)

IsIRI(s) == s.iri # None

IsObject(s) == s.ObjectMember # None

HasAny(s) == IsObject(s) \/ s.iri # None

KindIndex(s) == IF IsObject(s) THEN 0 ELSE IF IsIRI(s) THEN 0 - 2 ELSE 0 - 1

\* A clear() that forgets the reference.
clearKeepsIRI(s) == [s EXCEPT !.unknown = None, !.ObjectMember = None]

\* clear(): no variant set.
clear(s) == [s EXCEPT !.unknown = None, !.iri = None, !.ObjectMember = None]

\* Iterator Set(v): clear, then store the structured value.
\* A write that puts a fresh slot object in place of the receiver.
IterSetOfFresh(s, v) == Slot(v, None, None, s.alias, 0, s.parent)

IterSetOf(s, v) == [clear(s) EXCEPT !.ObjectMember = v]

\* Iterator SetIRI(v): clear, then store the reference.
IterSetIRIOf(s, v) == [clear(s) EXCEPT !.iri = v]

\* serialize() of one slot: [v |-> the encoded element, err |-> FALSE].
serialize(s) ==
  IF IsObject(s) THEN [v |-> ObjSerialize(s.ObjectMember[1]),
                       err |-> ObjSerializeErr(s.ObjectMember[1])]
  ELSE IF IsIRI(s) THEN [v |-> [t |-> "string", v |-> UrlString(s.iri[1])], err |-> FALSE]
  ELSE IF s.unknown # None THEN [v |-> [t |-> "bytes", v |-> s.unknown[1]], err |-> FALSE]
  ELSE [v |-> [t |-> "bytes", v |-> "nil"], err |-> FALSE]

\* m[k] = v for every entry of child: entries of child replace those of m.
MergeContext(m, child) ==
  [k \in DOMAIN m \cup DOMAIN child |-> IF k \in DOMAIN child THEN child[k] ELSE m[k]]

\* JSONLDContext() of one slot.
IterJSONLDContextOf(s) ==
  MergeContext((AS :> s.alias),
               IF IsObject(s) THEN ObjJSONLDContext(s.ObjectMember[1]) ELSE EmptyMap)

\* deserializeRelationshipPropertyIterator(i, aliasMap): decodes one element.
\* Returns [slot |-> <<s>> or <<>>, err |-> BOOLEAN].
deserializeRelationshipPropertyIterator(i, aliasMap) ==
  LET al == IF AS \in DOMAIN aliasMap THEN aliasMap[AS] ELSE ""
      asIRI == IF i.t = "string" THEN UrlParse(i.v) ELSE None
      failed == [slot |-> None, err |-> TRUE]
  IN IF i.t = "string" /\ asIRI # None
       THEN [slot |-> Some(Slot(None, None, asIRI, al, 0, NoParent)), err |-> FALSE]
     ELSE IF i.t = "map"
       THEN LET d == DeserializeObjectActivityStreams(i.v)
            IN IF d.err
                 THEN [slot |-> Some(Slot(d.v, None, None, al, 0, NoParent)), err |-> FALSE]
                 ELSE failed
     ELSE IF i.t = "bytes"
       THEN [slot |-> Some(Slot(None, Some(i.v), None, al, 0, NoParent)), err |-> FALSE]
     ELSE failed

(* ----------------------------- container ------------------------------ *)

\* NewRelationshipProperty(): the alias of the container under test.
ThisAlias == ""

InRange(index) == index >= 0 /\ index < Len(properties)

\* Indices tried by the callers, including one below and one above the range.
Indices == (0 - 1) .. Len(properties)

\* A read that answers nil for an index out of bounds.
AtOrNil(index) ==
  IF InRange(index) THEN [panic |-> FALSE, it |-> properties[index + 1]]
  ELSE [panic |-> FALSE, it |-> 0]

\* At(index): the slot pointer, or a panic when the index is out of bounds.
At(index) ==
  IF InRange(index) THEN [panic |-> FALSE, it |-> properties[index + 1]]
  ELSE [panic |-> TRUE, it |-> 0]

\* A re-index loop that never runs.
ReindexNone(h, props, i) == h

\* for i := from; i < Len(); i++ { properties[i].myIdx = i }
RECURSIVE ReindexFrom(_, _, _)
ReindexFrom(h, props, i) ==
  IF i >= Len(props) THEN h
  ELSE ReindexFrom([h EXCEPT ![props[i + 1]].myIdx = i], props, i + 1)

\* Next() of the slot object h: parent.Len() dereferences the back-reference.
NextOf(h) ==
  IF heap[h].parent = NoParent THEN [panic |-> TRUE, it |-> 0]
  ELSE IF heap[h].myIdx + 1 >= Len(properties) THEN [panic |-> FALSE, it |-> 0]
  ELSE At(heap[h].myIdx + 1)

\* Prev() of the slot object h: the back-reference is used only past index 0.
PrevOf(h) ==
  IF heap[h].myIdx - 1 < 0 THEN [panic |-> FALSE, it |-> 0]
  ELSE IF heap[h].parent = NoParent THEN [panic |-> TRUE, it |-> 0]
  ELSE At(heap[h].myIdx - 1)

\* Begin(): the first slot, or nil when the container is empty.
Begin == IF Len(properties) = 0 THEN 0 ELSE properties[1]

\* End(): nil.
End == 0

\* for it := h; it != End(); it = it.Next(): the slots visited, at most
\* `fuel` of them; a panic ends the walk.
RECURSIVE Walk(_, _)
Walk(h, fuel) ==
  IF h = End \/ fuel = 0 THEN <<>>
  ELSE <<h>> \o (IF NextOf(h).panic THEN <<>> ELSE Walk(NextOf(h).it, fuel - 1))

\* JSONLDContext() of the container: its own alias, then every slot's map.
RECURSIVE JSONLDContextFrom(_, _)
JSONLDContextFrom(m, i) ==
  IF i > Len(properties) THEN m
  ELSE JSONLDContextFrom(MergeContext(m, IterJSONLDContextOf(heap[properties[i]])), i + 1)

JSONLDContextOf == JSONLDContextFrom((AS :> ThisAlias), 1)

\* The outcome of the last call: the operation, whether it panicked, whether
\* it returned an error, and the value it returned (as an option).
\* "was" is the kind the slot held before a slot-level write.
Ret(op, panic, err, val, was) ==
  [op |-> op, panic |-> panic, err |-> err, val |-> val, was |-> was]

\* A call on the container: only the panic and a returned context are kept.
Returned(panic, val) == Ret("", panic, FALSE, val, "")

\* A mutator of the container that returned normally: its name is kept.
Did(op) == Ret(op, FALSE, FALSE, None, "")

\* The run-time errors a call can panic with.
IndexOutOfRange == "index out of range"

NilDereference == "nil pointer dereference"

\* A call that panicked: the run-time error is kept in place of the name.
Panicked(msg) == Ret(msg, TRUE, FALSE, None, "")

CanAlloc == Len(heap) < MaxAlloc

NewId == Len(heap) + 1

\* Slot objects a caller can hold a pointer to.
Handles == 1 .. Len(heap)

\* Slot objects the container has unlinked (Remove, Set, SetIRI).
Detached == {h \in Handles : heap[h].parent = NoParent}

OtherFrame == UNCHANGED <<iter, cont, din, dout, other, gen>>

(* ------------------------ container operations ------------------------ *)

AppendIRI(v) ==
  /\ CanAlloc
  /\ heap' = Append(heap, Slot(None, None, Some(v), ThisAlias, Len(properties), This))
  /\ properties' = Append(properties, NewId)
  /\ ret' = Did("AppendIRI")
  /\ OtherFrame

AppendObject(v) ==
  /\ CanAlloc
  /\ heap' = Append(heap, Slot(Some(v), None, None, ThisAlias, Len(properties), This))
  /\ properties' = Append(properties, NewId)
  /\ ret' = Did("AppendObject")
  /\ OtherFrame

PrependIRI(v) ==
  /\ CanAlloc
  /\ properties' = <<NewId>> \o properties
  /\ heap' = ReindexFrom(Append(heap, Slot(None, None, Some(v), ThisAlias, 0, This)),
                         properties', 1)
  /\ ret' = Did("PrependIRI")
  /\ OtherFrame

PrependObject(v) ==
  /\ CanAlloc
  /\ properties' = <<NewId>> \o properties
  /\ heap' = ReindexFrom(Append(heap, Slot(Some(v), None, None, ThisAlias, 0, This)),
                         properties', 1)
  /\ ret' = Did("PrependObject")
  /\ OtherFrame

\* A removal that copies down but does not shrink the slice.
RemoveAtNoShrink(props, idx) ==
  SubSeq(props, 1, idx) \o SubSeq(props, idx + 2, Len(props)) \o <<props[Len(props)]>>

\* The slice without its element at idx (copy down, then shrink by one).
RemoveAt(props, idx) == SubSeq(props, 1, idx) \o SubSeq(props, idx + 2, Len(props))

\* A removal that shrinks the slice without copying the tail down.
RemoveNoCopy(idx) ==
  /\ IF InRange(idx)
       THEN /\ properties' = SubSeq(properties, 1, Len(properties) - 1)
            /\ heap' = ReindexFrom([heap EXCEPT ![properties[idx + 1]].parent = NoParent],
                                   properties', idx)
            /\ ret' = Did("Remove")
       ELSE /\ ret' = Panicked(IndexOutOfRange)
            /\ UNCHANGED <<heap, properties>>
  /\ OtherFrame

Remove(idx) ==
  /\ IF InRange(idx)
       THEN /\ properties' = RemoveAt(properties, idx)
            /\ heap' = ReindexFrom([heap EXCEPT ![properties[idx + 1]].parent = NoParent],
                                   properties', idx)
            /\ ret' = Did("Remove")
       ELSE /\ ret' = Panicked(IndexOutOfRange)
            /\ UNCHANGED <<heap, properties>>
  /\ OtherFrame

Set(idx, v) ==
  /\ IF InRange(idx)
       THEN /\ CanAlloc
            /\ heap' = Append([heap EXCEPT ![properties[idx + 1]].parent = NoParent],
                              Slot(Some(v), None, None, ThisAlias, idx, This))
            /\ properties' = [properties EXCEPT ![idx + 1] = NewId]
            /\ ret' = Did("Property.Set")
       ELSE /\ ret' = Panicked(IndexOutOfRange)
            /\ UNCHANGED <<heap, properties>>
  /\ OtherFrame

SetIRI(idx, v) ==
  /\ IF InRange(idx)
       THEN /\ CanAlloc
            /\ heap' = Append([heap EXCEPT ![properties[idx + 1]].parent = NoParent],
                              Slot(None, None, Some(v), ThisAlias, idx, This))
            /\ properties' = [properties EXCEPT ![idx + 1] = NewId]
            /\ ret' = Did("Property.SetIRI")
       ELSE /\ ret' = Panicked(IndexOutOfRange)
            /\ UNCHANGED <<heap, properties>>
  /\ OtherFrame

\* An exchange written as two assignments in sequence.
SwapSequential(i, j) ==
  /\ IF InRange(i) /\ InRange(j)
       THEN /\ properties' = [properties EXCEPT ![i + 1] = properties[j + 1],
                                                 ![j + 1] = properties[j + 1]]
            /\ ret' = Did("Swap")
       ELSE /\ ret' = Panicked(IndexOutOfRange)
            /\ UNCHANGED properties
  /\ UNCHANGED heap
  /\ OtherFrame

Swap(i, j) ==
  /\ IF InRange(i) /\ InRange(j)
       THEN /\ properties' = [properties EXCEPT ![i + 1] = properties[j + 1],
                                                 ![j + 1] = properties[i + 1]]
            /\ ret' = Did("Swap")
       ELSE /\ ret' = Panicked(IndexOutOfRange)
            /\ UNCHANGED properties
  /\ UNCHANGED heap
  /\ OtherFrame

\* A call that only reads: its outcome is all it leaves behind.
Reply(r) ==
  /\ ret' = r
  /\ UNCHANGED <<heap, properties>>
  /\ OtherFrame

\* this.At(index): a bounds-checked read of the slice.
AtOutcome(index) ==
  IF At(index).panic THEN Panicked(IndexOutOfRange) ELSE Returned(FALSE, None)

CallAt(index) == Reply(AtOutcome(index))

\* this.KindIndex(idx): this.properties[idx].KindIndex().
KindIndexOutcome(idx) ==
  IF InRange(idx) THEN Returned(FALSE, None) ELSE Panicked(IndexOutOfRange)

CallKindIndex(idx) == Reply(KindIndexOutcome(idx))

\* this.Less(i, j): KindIndex(i), then KindIndex(j), then reads of both slots.
LessOutcome(i, j) ==
  IF InRange(i) /\ InRange(j) THEN Returned(FALSE, None)
  ELSE Panicked(IndexOutOfRange)

CallLess(i, j) == Reply(LessOutcome(i, j))

JSONLDContext ==
  /\ ret' = Returned(FALSE, Some(JSONLDContextOf))
  /\ UNCHANGED <<heap, properties>>
  /\ OtherFrame

\* The run-time error of a panicking Next() or Prev() of the slot object h.
IterPanic(h) ==
  IF heap[h].parent = NoParent THEN NilDereference ELSE IndexOutOfRange

NextOutcome(h) ==
  IF NextOf(h).panic THEN Panicked(IterPanic(h)) ELSE Returned(FALSE, None)

IterNext(h) == Reply(NextOutcome(h))

PrevOutcome(h) ==
  IF PrevOf(h).panic THEN Panicked(IterPanic(h)) ELSE Returned(FALSE, None)

IterPrev(h) == Reply(PrevOutcome(h))

\* The variant a slot holds.
KindOf(s) ==
  IF IsObject(s) THEN "structured"
  ELSE IF IsIRI(s) THEN "reference"
  ELSE IF s.unknown # None THEN "opaque"
  ELSE "empty"

\* this.At(index).Set(v): the write goes through the pointer At returns,
\* clears the slot object and stores the value.
IteratorSet(index, v) ==
  /\ IF At(index).panic
       THEN /\ ret' = Panicked(IndexOutOfRange)
            /\ UNCHANGED heap
       ELSE /\ heap' = [heap EXCEPT ![At(index).it] = IterSetOf(@, Some(v))]
            /\ ret' = Did("Iterator.Set")
  /\ UNCHANGED properties
  /\ OtherFrame

\* this.At(index).SetIRI(v).
IteratorSetIRI(index, v) ==
  /\ IF At(index).panic
       THEN /\ ret' = Panicked(IndexOutOfRange)
            /\ UNCHANGED heap
       ELSE /\ heap' = [heap EXCEPT ![At(index).it] = IterSetIRIOf(@, Some(v))]
            /\ ret' = Did("Iterator.SetIRI")
  /\ UNCHANGED properties
  /\ OtherFrame

(* ------------------- operations on a single slot ---------------------- *)

SlotFrame == UNCHANGED <<heap, properties, cont, din, dout, other, gen>>

NewIterator ==
  /\ iter' = NewRelationshipPropertyIterator
  /\ ret' = Ret("NewRelationshipPropertyIterator", FALSE, FALSE, None, "")
  /\ SlotFrame

DeserializeIterator(i, aliasMap) ==
  /\ LET r == deserializeRelationshipPropertyIterator(i, aliasMap)
     IN IF r.err
          THEN /\ ret' = Ret("deserialize", FALSE, TRUE, Some(i), "")
               /\ UNCHANGED iter
          ELSE /\ iter' = r.slot[1]
               /\ ret' = Ret("deserialize", FALSE, FALSE, Some(i), "")
  /\ SlotFrame

IterSet(v) ==
  /\ iter' = IterSetOf(iter, Some(v))
  /\ ret' = Ret("Set", FALSE, FALSE, Some(v), KindOf(iter))
  /\ SlotFrame

IterSetIRI(v) ==
  /\ iter' = IterSetIRIOf(iter, Some(v))
  /\ ret' = Ret("SetIRI", FALSE, FALSE, Some(v), KindOf(iter))
  /\ SlotFrame

IterSerialize ==
  /\ ret' = Ret("serialize", FALSE, serialize(iter).err, Some(serialize(iter).v), "")
  /\ UNCHANGED iter
  /\ SlotFrame

IterJSONLDContext ==
  /\ ret' = Ret("JSONLDContext", FALSE, FALSE, Some(IterJSONLDContextOf(iter)), "")
  /\ UNCHANGED iter
  /\ SlotFrame

NextSlot ==
  \/ NewIterator
  \/ \E i \in Elements, aliasMap \in AliasMaps : DeserializeIterator(i, aliasMap)
  \/ \E v \in Objects : IterSet(v)
  \/ \E v \in URLs : IterSetIRI(v)
  \/ IterSerialize
  \/ IterJSONLDContext

(* -------------------------- decode and encode ------------------------- *)

\* A container as a value: its alias and its slots in sequence order.
Container(al, props) == [alias |-> al, properties |-> props]

\* for idx, ele := range properties { ele.parent = this; ele.myIdx = idx }
Link(props) ==
  [k \in 1 .. Len(props) |-> [props[k] EXCEPT !.parent = This, !.myIdx = k - 1]]

\* The alias registered for the vocabulary, "" when there is none.
AliasOf(aliasMap) == IF AS \in DOMAIN aliasMap THEN aliasMap[AS] ELSE ""

\* The key the property is read from: the term, or alias:term.
PropName(al) == IF al # "" THEN al \o ":" \o Term ELSE Term

\* The loop over the elements: decodes list[k..], appending to acc, and stops
\* at the first element whose decode returns an error.
RECURSIVE DecodeFrom(_, _, _, _)
DecodeFrom(list, aliasMap, k, acc) ==
  IF k > Len(list) THEN [props |-> acc, err |-> FALSE]
  ELSE LET r == deserializeRelationshipPropertyIterator(list[k], aliasMap)
       IN IF r.err THEN [props |-> acc, err |-> TRUE]
          ELSE DecodeFrom(list, aliasMap, k + 1, acc \o r.slot)

\* A decode that allocates the container before looking the key up.
DeserializeEager(m, aliasMap) ==
  LET al == AliasOf(aliasMap)
      outer == Some(Container(al, <<>>))
  IN IF PropName(al) \in DOMAIN m
       THEN LET r == DecodeFrom(m[PropName(al)].elems, aliasMap, 1, <<>>)
                inner == Container(al, r.props)
            IN IF r.err THEN [this |-> Some(inner), err |-> TRUE]
               ELSE [this |-> outer, err |-> FALSE]
       ELSE [this |-> outer, err |-> FALSE]

\* DeserializeRelationshipProperty(m, aliasMap). A value of m is
\* [list |-> whether it is an array, elems |-> its elements (one if bare)].
\* The container is built in a variable declared inside the key-present
\* block; that inner variable is returned with an element's error, while the
\* final return yields the outer variable, which is never assigned.
DeserializeRelationshipProperty(m, aliasMap) ==
  LET al == AliasOf(aliasMap)
      outer == None
  IN IF PropName(al) \in DOMAIN m
       THEN LET r == DecodeFrom(m[PropName(al)].elems, aliasMap, 1, <<>>)
                inner == Container(al, r.props)
            IN IF r.err THEN [this |-> Some(inner), err |-> TRUE]
               ELSE [this |-> outer, err |-> FALSE]
       ELSE [this |-> outer, err |-> FALSE]

\* An encoder that drops a slot whose encoding fails and carries on.
RECURSIVE SerializeSkipFailed(_, _, _)
SerializeSkipFailed(props, k, acc) ==
  IF k > Len(props) THEN [v |-> acc, err |-> FALSE]
  ELSE IF serialize(props[k]).err THEN SerializeSkipFailed(props, k + 1, acc)
  ELSE SerializeSkipFailed(props, k + 1, Append(acc, serialize(props[k]).v))

\* Serialize() of a container value: the slots' encodings in sequence order,
\* stopping at the first slot whose encoding fails.
RECURSIVE SerializeFrom(_, _, _)
SerializeFrom(props, k, acc) ==
  IF k > Len(props) THEN [v |-> acc, err |-> FALSE]
  ELSE IF serialize(props[k]).err THEN [v |-> acc, err |-> TRUE]
  ELSE SerializeFrom(props, k + 1, Append(acc, serialize(props[k]).v))

Serialize(c) == SerializeFrom(c.properties, 1, <<>>)

\* Len() called through the returned interface: a panic on a nil pointer.
LenOf(this) ==
  IF this = None THEN [panic |-> TRUE, n |-> 0]
  ELSE [panic |-> FALSE, n |-> Len(this[1].properties)]

\* Sequences over S of length at most n.
SeqUpTo(S, n) == UNION {[1 .. k -> S] : k \in 0 .. n}

\* JSON values of a key: a bare element or an array of elements.
JSONValues ==
  {[list |-> FALSE, elems |-> <<e>>] : e \in Elements}
    \cup {[list |-> TRUE, elems |-> l] : l \in SeqUpTo(Elements, MaxList)}

KeyNames == {Term, "as:" \o Term}

\* Input maps: no entry for the property, or one entry under either key.
InputMaps ==
  {EmptyMap} \cup {(k :> v) : k \in KeyNames, v \in JSONValues}

Inputs == [m : InputMaps, aliasMap : AliasMaps, from : {"input"}]

\* Slots a container can hold, by the value they carry.
SlotValues ==
  {Slot(Some(o), None, None, "", 0, This) : o \in Objects \cup FailingObjects}
    \cup {Slot(None, None, Some(u), "", 0, This) : u \in URLs}
    \cup {Slot(None, Some(b), None, "", 0, This) : b \in Payloads}

\* Containers handed to Serialize: every slot linked and carrying the alias.
Containers ==
  {Container(al, Link([k \in 1 .. Len(p) |-> [p[k] EXCEPT !.alias = al]])) :
     al \in {"", "as"}, p \in SeqUpTo(SlotValues, MaxList)}

DecodeFrame == UNCHANGED <<heap, properties, iter, other, gen>>

\* The caller decodes the input map.
Deserialize ==
  /\ ~dout.done
  /\ dout' = [done |-> TRUE,
              this |-> DeserializeRelationshipProperty(din.m, din.aliasMap).this,
              err |-> DeserializeRelationshipProperty(din.m, din.aliasMap).err]
  /\ ret' = Ret("Deserialize", FALSE, dout'.err, None, "")
  /\ UNCHANGED <<cont, din>>
  /\ DecodeFrame

\* The caller encodes the container and stores the array under the
\* property's key, declaring the container's alias when it has one.
SerializeToMap ==
  /\ ~dout.done
  /\ din.from = "none"
  /\ LET r == Serialize(cont)
     IN /\ ret' = Ret("Serialize", FALSE, r.err, Some(r.v), "")
        /\ din' = IF r.err THEN din
                  ELSE [m |-> (PropName(cont.alias) :> [list |-> TRUE, elems |-> r.v]),
                        aliasMap |-> IF cont.alias = "" THEN EmptyMap ELSE (AS :> cont.alias),
                        from |-> "serialized"]
  /\ UNCHANGED <<cont, dout>>
  /\ DecodeFrame

NextDecode ==
  \/ Deserialize
  \/ SerializeToMap

(* ------------------------------ ordering ------------------------------ *)

\* The texts the references encode to, in Go's byte-wise string order.
SortedTexts == <<"https://ex/1", "https://ex/2">>

\* a < b on Go strings, for the texts above.
StrLess(a, b) ==
  \E i, j \in 1 .. Len(SortedTexts) : SortedTexts[i] = a /\ SortedTexts[j] = b /\ i < j

\* The rank a structured value's own LessThan orders by; equal ranks are
\* equivalent values.
ObjRank(o) == IF o = "o1" THEN 1 ELSE 2

\* LessThan of a structured value: a strict weak order.
ObjLessThan(a, b) == ObjRank(a) < ObjRank(b)

\* A slot comparison that ranks structured values below opaque ones.
IterLessThanObjFirst(this, o) ==
  IF IsIRI(this) /\ IsIRI(o) THEN StrLess(UrlString(this.iri[1]), UrlString(o.iri[1]))
  ELSE IF IsIRI(this) THEN TRUE
  ELSE IF IsIRI(o) THEN FALSE
  ELSE IF ~IsObject(this) /\ ~IsObject(o) THEN FALSE
  ELSE IF IsObject(this) /\ ~IsObject(o) THEN TRUE
  ELSE IF ~IsObject(this) /\ IsObject(o) THEN FALSE
  ELSE ObjLessThan(this.ObjectMember[1], o.ObjectMember[1])

\* RelationshipPropertyIterator.LessThan(o) on slot values.
IterLessThan(this, o) ==
  IF IsIRI(this) /\ IsIRI(o) THEN StrLess(UrlString(this.iri[1]), UrlString(o.iri[1]))
  ELSE IF IsIRI(this) THEN TRUE
  ELSE IF IsIRI(o) THEN FALSE
  ELSE IF ~IsObject(this) /\ ~IsObject(o) THEN FALSE
  ELSE IF IsObject(this) /\ ~IsObject(o) THEN FALSE
  ELSE IF ~IsObject(this) /\ IsObject(o) THEN TRUE
  ELSE ObjLessThan(this.ObjectMember[1], o.ObjectMember[1])

Min(a, b) == IF b < a THEN b ELSE a

\* A container comparison that does not stop when the other side is less.
RECURSIVE LessThanFromNoReverse(_, _, _)
LessThanFromNoReverse(this, o, i) ==
  IF i >= Min(Len(this.properties), Len(o.properties))
    THEN Len(this.properties) < Len(o.properties)
  ELSE IF IterLessThan(this.properties[i + 1], o.properties[i + 1]) THEN TRUE
  ELSE LessThanFromNoReverse(this, o, i + 1)

\* A container comparison whose length tie-break is "not longer".
RECURSIVE LessThanFromLenLE(_, _, _)
LessThanFromLenLE(this, o, i) ==
  IF i >= Min(Len(this.properties), Len(o.properties))
    THEN Len(this.properties) <= Len(o.properties)
  ELSE IF IterLessThan(this.properties[i + 1], o.properties[i + 1]) THEN TRUE
  ELSE IF IterLessThan(o.properties[i + 1], this.properties[i + 1]) THEN FALSE
  ELSE LessThanFromLenLE(this, o, i + 1)

\* The loop of RelationshipProperty.LessThan from offset i (0-based).
RECURSIVE LessThanFrom(_, _, _)
LessThanFrom(this, o, i) ==
  IF i >= Min(Len(this.properties), Len(o.properties))
    THEN Len(this.properties) < Len(o.properties)
  ELSE IF IterLessThan(this.properties[i + 1], o.properties[i + 1]) THEN TRUE
  ELSE IF IterLessThan(o.properties[i + 1], this.properties[i + 1]) THEN FALSE
  ELSE LessThanFrom(this, o, i + 1)

\* RelationshipProperty.LessThan(o) on container values.
LessThan(this, o) == LessThanFrom(this, o, 0)

\* Slots compared: two references, two opaque payloads (equivalent under the
\* ordering) and two structured values.
OrdSlotValues ==
  {Slot(Some(o), None, None, "", 0, This) : o \in Objects}
    \cup {Slot(None, None, Some(u), "", 0, This) : u \in URLs}
    \cup {Slot(None, Some(b), None, "", 0, This) : b \in Payloads}

\* Containers compared.
OrdContainers ==
  {Container("", Link(p)) : p \in SeqUpTo(OrdSlotValues, MaxList)}

OrderFrame == UNCHANGED <<heap, properties, iter, cont, din, dout, other, gen>>

\* cont.LessThan(other).
PropLessThan ==
  /\ ret' = Ret("LessThan", FALSE, FALSE, Some(LessThan(cont, other)), "")
  /\ OrderFrame

\* cont.At(i).LessThan(other.At(j)), for in-range offsets.
SlotLessThan(i, j) ==
  /\ i < Len(cont.properties)
  /\ j < Len(other.properties)
  /\ ret' = Ret("Iterator.LessThan", FALSE, FALSE,
                Some(IterLessThan(cont.properties[i + 1], other.properties[j + 1])), "")
  /\ OrderFrame

\* this.KindIndex(idx) on a container value.
KindIndexAt(this, idx) == KindIndex(this.properties[idx + 1])

\* A positional comparison by kind rank alone.
LessRankOnly(this, i, j) == KindIndexAt(this, i) < KindIndexAt(this, j)

\* this.Less(i, j): the kind ranks first, the values on a tie of rank.
Less(this, i, j) ==
  IF KindIndexAt(this, i) < KindIndexAt(this, j) THEN TRUE
  ELSE IF KindIndexAt(this, i) = KindIndexAt(this, j)
    THEN IF KindIndexAt(this, i) = 0
           THEN ObjLessThan(this.properties[i + 1].ObjectMember[1],
                            this.properties[j + 1].ObjectMember[1])
         ELSE IF KindIndexAt(this, i) = 0 - 2
           THEN StrLess(UrlString(this.properties[i + 1].iri[1]),
                        UrlString(this.properties[j + 1].iri[1]))
         ELSE FALSE
  ELSE FALSE

\* cont.KindIndex(idx): the rank, or a panic out of range.
PropKindIndex(idx) ==
  /\ ret' = IF idx < Len(cont.properties)
              THEN Ret("KindIndex", FALSE, FALSE,
                       Some([i |-> idx, j |-> idx, r |-> KindIndexAt(cont, idx)]), "")
            ELSE Panicked(IndexOutOfRange)
  /\ OrderFrame

\* cont.Less(i, j): the comparison, or a panic out of range.
PropLess(i, j) ==
  /\ ret' = IF i < Len(cont.properties) /\ j < Len(cont.properties)
              THEN Ret("Less", FALSE, FALSE,
                       Some([i |-> i, j |-> j, r |-> Less(cont, i, j)]), "")
            ELSE Panicked(IndexOutOfRange)
  /\ OrderFrame

NextLess ==
  \/ \E idx \in 0 .. MaxList : PropKindIndex(idx)
  \/ \E i \in 0 .. MaxList, j \in 0 .. MaxList : PropLess(i, j)

NextOrder ==
  \/ PropLessThan
  \/ \E i \in 0 .. MaxList, j \in 0 .. MaxList : SlotLessThan(i, j)

(* ------------------------- generator naming --------------------------- *)

getMethod == "Get"

setMethod == "Set"

isMethod == "Is"

\* Kind{Name: Identifier{LowerName, CamelName}, Nilable}.
Kind(lower, camel, nilable) ==
  [Name |-> [LowerName |-> lower, CamelName |-> camel], Nilable |-> nilable]

\* The Identifier of the property generated.
PropertyName == [LowerName |-> "relationship", CamelName |-> "Relationship"]

\* Kinds a property is generated for: two pointer-like ones and a plain one.
KindChoices ==
  {Kind("object", "Object", TRUE), Kind("link", "Link", TRUE),
   Kind("boolean", "Boolean", FALSE)}

\* PropertyGenerator values: one to MaxKinds different kinds, as a property
\* or as its iterator.
Generators ==
  {[Name |-> PropertyName, Kinds |-> ks, asIterator |-> it] :
     ks \in {q \in SeqUpTo(KindChoices, MaxKinds) :
               /\ Len(q) >= 1
               /\ \A a, b \in 1 .. Len(q) : q[a] = q[b] => a = b},
     it \in BOOLEAN}

\* Kind indices the generator's callers pass, one below and some above range.
KindIndices == (0 - 1) .. MaxKinds

\* The outcome of a naming function: a panic, or the identifier.
Named(v) == [panic |-> FALSE, v |-> v]

NoName == [panic |-> TRUE, v |-> ""]

\* p.Kinds[i]: an index out of range panics.
KindAt(p, i) == i >= 0 /\ i < Len(p.Kinds)

\* structName(): the property's name, suffixed unless generated as iterator.
structName(p) ==
  IF p.asIterator THEN Named(p.Name.CamelName)
  ELSE Named(p.Name.CamelName \o "Property")

kindCamelName(p, i) ==
  IF KindAt(p, i) THEN Named(p.Kinds[i + 1].Name.CamelName) ELSE NoName

getFnName(p, i) ==
  IF Len(p.Kinds) = 1 THEN Named(getMethod)
  ELSE IF kindCamelName(p, i).panic THEN NoName
  ELSE Named(getMethod \o kindCamelName(p, i).v)

\* The name of the setter: unqualified for one kind, else kind-qualified.
setFnName(p, i) ==
  IF Len(p.Kinds) = 1 THEN Named(setMethod)
  ELSE IF kindCamelName(p, i).panic THEN NoName
  ELSE Named(setMethod \o kindCamelName(p, i).v)

memberName(p, i) ==
  IF KindAt(p, i) THEN Named(p.Kinds[i + 1].Name.LowerName \o "Member") ELSE NoName

hasMemberName(p, i) ==
  IF Len(p.Kinds) = 1 /\ p.Kinds[1].Nilable THEN NoName
  ELSE IF KindAt(p, i) THEN Named("has" \o p.Kinds[i + 1].Name.CamelName \o "Member")
  ELSE NoName

\* An "is" name that is unqualified for a single kind, as the getter's is.
isMethodNameUnqualified(p, i) ==
  IF Len(p.Kinds) = 1 THEN Named(isMethod)
  ELSE IF kindCamelName(p, i).panic THEN NoName
  ELSE Named(isMethod \o kindCamelName(p, i).v)

isMethodName(p, i) ==
  IF kindCamelName(p, i).panic THEN NoName
  ELSE Named(isMethod \o kindCamelName(p, i).v)

GenFrame == UNCHANGED <<heap, properties, iter, cont, din, dout, other, gen>>

\* A naming function called for kind index i: the index and the identifier.
Naming(op, i, r) ==
  /\ ret' = Ret(op, r.panic, FALSE, Some([i |-> i, name |-> r.v]), "")
  /\ GenFrame

StructName == Naming("structName", 0, structName(gen))

KindCamelName(i) == Naming("kindCamelName", i, kindCamelName(gen, i))

GetFnName(i) == Naming("getFnName", i, getFnName(gen, i))

SetFnName(i) == Naming("setFnName", i, setFnName(gen, i))

MemberName(i) == Naming("memberName", i, memberName(gen, i))

HasMemberName(i) == Naming("hasMemberName", i, hasMemberName(gen, i))

IsMethodName(i) == Naming("isMethodName", i, isMethodName(gen, i))

NextGen ==
  \/ StructName
  \/ \E i \in KindIndices : KindCamelName(i)
  \/ \E i \in KindIndices : GetFnName(i)
  \/ \E i \in KindIndices : SetFnName(i)
  \/ \E i \in KindIndices : MemberName(i)
  \/ \E i \in KindIndices : HasMemberName(i)
  \/ \E i \in KindIndices : IsMethodName(i)

(* --------------------------- specification ---------------------------- *)

NoCont == [alias |-> "", properties |-> <<>>]

NoInput == [m |-> EmptyMap, aliasMap |-> EmptyMap, from |-> "none"]

NoOutput == [done |-> FALSE, this |-> None, err |-> FALSE]

\* No generator configured: a property without kinds.
NoGen ==
  [Name |-> [LowerName |-> "", CamelName |-> ""], Kinds |-> <<>>, asIterator |-> FALSE]

Init ==
  /\ heap = <<>>
  /\ properties = <<>>
  /\ ret = Returned(FALSE, None)
  /\ iter = NewRelationshipPropertyIterator
  /\ cont = NoCont
  /\ din = NoInput
  /\ dout = NoOutput
  /\ other = NoCont
  /\ gen = NoGen

\* The calls that only read are taken once per outcome: calls with different
\* arguments and the same outcome are the same step.
Next ==
  \/ \E v \in ContainerURLs : AppendIRI(v)
  \/ \E v \in ContainerObjects : AppendObject(v)
  \/ \E v \in ContainerURLs : PrependIRI(v)
  \/ \E v \in ContainerObjects : PrependObject(v)
  \/ \E idx \in Indices : Remove(idx)
  \/ \E idx \in Indices, v \in ContainerObjects : Set(idx, v)
  \/ \E idx \in Indices, v \in ContainerURLs : SetIRI(idx, v)
  \/ \E i \in Indices, j \in Indices : Swap(i, j)
  \/ \E r \in {AtOutcome(index) : index \in Indices} : Reply(r)
  \/ \E r \in {KindIndexOutcome(idx) : idx \in Indices} : Reply(r)
  \/ \E r \in {LessOutcome(i, j) : i \in Indices, j \in Indices} : Reply(r)
  \/ JSONLDContext
  \/ \E r \in {NextOutcome(h) : h \in Handles} : Reply(r)
  \/ \E r \in {PrevOutcome(h) : h \in Handles} : Reply(r)
  \/ \E index \in Indices, v \in ContainerObjects : IteratorSet(index, v)
  \/ \E index \in Indices, v \in ContainerURLs : IteratorSetIRI(index, v)

Spec == Init /\ [][Next]_vars

\* One slot outside any container: created, decoded, written, encoded.
InitSlot == Init

SlotSpec == InitSlot /\ [][NextSlot]_vars

\* The decode entry point applied to an input map, and the encode / decode
\* round trip of a container.
InitDecode ==
  /\ heap = <<>>
  /\ properties = <<>>
  /\ ret = Returned(FALSE, None)
  /\ iter = NewRelationshipPropertyIterator
  /\ dout = NoOutput
  /\ other = NoCont
  /\ gen = NoGen
  /\ \/ cont = NoCont /\ din \in Inputs
     \/ cont \in Containers /\ din = NoInput

DecodeSpec == InitDecode /\ [][NextDecode]_vars

\* Two containers, compared with each other and slot by slot.
InitOrder ==
  /\ heap = <<>>
  /\ properties = <<>>
  /\ ret = Returned(FALSE, None)
  /\ iter = NewRelationshipPropertyIterator
  /\ din = NoInput
  /\ dout = NoOutput
  /\ gen = NoGen
  /\ cont \in OrdContainers
  /\ other \in OrdContainers

OrderSpec == InitOrder /\ [][NextOrder]_vars

\* One container, its slots ranked and compared by position.
InitLess ==
  /\ heap = <<>>
  /\ properties = <<>>
  /\ ret = Returned(FALSE, None)
  /\ iter = NewRelationshipPropertyIterator
  /\ din = NoInput
  /\ dout = NoOutput
  /\ gen = NoGen
  /\ other = NoCont
  /\ cont \in OrdContainers

LessSpec == InitLess /\ [][NextLess]_vars

\* One configured generator, asked for the names it gives.
InitGen ==
  /\ heap = <<>>
  /\ properties = <<>>
  /\ ret = Returned(FALSE, None)
  /\ iter = NewRelationshipPropertyIterator
  /\ cont = NoCont
  /\ din = NoInput
  /\ dout = NoOutput
  /\ other = NoCont
  /\ gen \in Generators

GenSpec == InitGen /\ [][NextGen]_vars

TypeOK ==
  /\ Len(heap) <= MaxAlloc
  /\ \A k \in 1 .. Len(properties) : properties[k] \in 1 .. Len(heap)

(* ------------------------------- claims ------------------------------- *)

\* C1: every slot in the container's sequence stores, as myIdx, its actual
\* offset in the sequence.
IndexInvariant ==
  \A k \in 1 .. Len(properties) : heap[properties[k]].myIdx = k - 1

\* The input map of the decode has an entry under the property's key.
KeyPresent == PropName(AliasOf(din.aliasMap)) \in DOMAIN din.m

\* The elements of that entry.
InputElems == din.m[PropName(AliasOf(din.aliasMap))].elems

\* The element decoder returns no error for e.
Decodes(e) == ~deserializeRelationshipPropertyIterator(e, din.aliasMap).err

\* C2: when the key is present and every element decodes without error, the
\* decode returns, with a nil error, a container holding one slot per input
\* element in input order; an IRI string gives a slot that IsIRI with that
\* IRI, and a single IRI string encodes back to a one-element array holding it.
DecodeReturnsContainer ==
  (dout.done /\ din.from = "input" /\ KeyPresent
     /\ \A k \in 1 .. Len(InputElems) : Decodes(InputElems[k]))
  => /\ ~dout.err
     /\ dout.this # None
     /\ Len(dout.this[1].properties) = Len(InputElems)
     /\ \A k \in 1 .. Len(InputElems) :
          InputElems[k].t = "string"
            => /\ IsIRI(dout.this[1].properties[k])
               /\ dout.this[1].properties[k].iri = UrlParse(InputElems[k].v)
     /\ (Len(InputElems) = 1 /\ InputElems[1].t = "string")
          => Serialize(dout.this[1]).v = <<InputElems[1]>>

\* The structured decoder accepts the element.
Accepted(e) == e.t = "map" /\ ~DeserializeObjectActivityStreams(e.v).err

\* The structured decoder rejects the element.
Rejected(e) == e.t = "map" /\ DeserializeObjectActivityStreams(e.v).err

\* The element is a string that parses as an identifier.
Parseable(e) == e.t = "string" /\ UrlParse(e.v) # None

\* C3: an element that is neither a parseable string nor an object the
\* structured decoder accepts is no error: it becomes an Opaque slot holding
\* the payload verbatim and the remaining elements are still decoded, so the
\* result has one slot per element (References for the parseable strings).
OpaqueFallback ==
  (dout.done /\ din.from = "input" /\ KeyPresent
     /\ \A k \in 1 .. Len(InputElems) : ~Accepted(InputElems[k]))
  => /\ ~dout.err
     /\ dout.this # None
     /\ Len(dout.this[1].properties) = Len(InputElems)
     /\ \A k \in 1 .. Len(InputElems) :
          IF Parseable(InputElems[k])
            THEN KindOf(dout.this[1].properties[k]) = "reference"
            ELSE /\ KindOf(dout.this[1].properties[k]) = "opaque"
                 /\ dout.this[1].properties[k].unknown = Some(InputElems[k].v)

\* C4: an object the structured decoder rejects makes the decode return an
\* error; objects the structured decoder accepts become Structured slots
\* holding the decoded value, with no error.
StructuredFailurePropagated ==
  (dout.done /\ din.from = "input" /\ KeyPresent)
  => /\ (\E k \in 1 .. Len(InputElems) : Rejected(InputElems[k])) => dout.err
     /\ (\A k \in 1 .. Len(InputElems) : Accepted(InputElems[k]))
          => /\ ~dout.err
             /\ dout.this # None
             /\ Len(dout.this[1].properties) = Len(InputElems)
             /\ \A k \in 1 .. Len(InputElems) :
                  dout.this[1].properties[k].ObjectMember =
                    DeserializeObjectActivityStreams(InputElems[k].v).v

\* C5 as stated: with no entry under the property's key the decode returns a
\* nil error and a usable empty container, on which Len returns 0.
KeyAbsentEmptyContainer ==
  (dout.done /\ ~KeyPresent)
  => /\ ~dout.err
     /\ ~LenOf(dout.this).panic
     /\ LenOf(dout.this).n = 0

\* C5 as amended: with no entry under the property's key the decode returns a
\* nil error and a nil container, on which Len panics.
KeyAbsentNilContainer ==
  (dout.done /\ ~KeyPresent)
  => /\ ~dout.err
     /\ dout.this = None
     /\ LenOf(dout.this).panic

\* An alias is active and the map holds only the bare term: the key is absent.
KeyAbsentWitness ==
  /\ dout.done
  /\ ~KeyPresent
  /\ AliasOf(din.aliasMap) = "as"
  /\ Term \in DOMAIN din.m

\* The slot carries a reference or an opaque payload.
RefOrOpaque(s) == KindOf(s) \in {"reference", "opaque"}

\* C6: encoding a container of Reference and Opaque slots and decoding the
\* result gives, without error, a container of the same length with the same
\* kind and value at every position.
RoundTrip ==
  (dout.done /\ din.from = "serialized"
     /\ \A k \in 1 .. Len(cont.properties) : RefOrOpaque(cont.properties[k]))
  => /\ ~dout.err
     /\ dout.this # None
     /\ Len(dout.this[1].properties) = Len(cont.properties)
     /\ \A k \in 1 .. Len(cont.properties) :
          /\ KindOf(dout.this[1].properties[k]) = KindOf(cont.properties[k])
          /\ dout.this[1].properties[k].iri = cont.properties[k].iri
          /\ dout.this[1].properties[k].unknown = cont.properties[k].unknown

\* C7: Next and Prev both panic on every slot the container has unlinked by
\* Remove, Set or SetIRI.
DetachedFailLoudly ==
  \A h \in Detached : NextOf(h).panic /\ PrevOf(h).panic

\* C8: in the map returned by JSONLDContext of the container and of each of
\* its slots, the entry for the vocabulary namespace is the container's (the
\* slot's) own alias, never one contributed by a contained structured value.
AliasFirstWriterWins ==
  /\ ret.val # None => ret.val[1][AS] = ThisAlias
  /\ \A k \in 1 .. Len(properties) :
       IterJSONLDContextOf(heap[properties[k]])[AS] = heap[properties[k]].alias

\* C9: every slot in the container's sequence has its back-reference set to
\* this container, and no slot object occupies two positions.
Ownership ==
  /\ \A k \in 1 .. Len(properties) : heap[properties[k]].parent = This
  /\ \A j, k \in 1 .. Len(properties) : properties[j] = properties[k] => j = k

\* Two slots remain owned after one slot was unlinked and two were swapped
\* (the slot at offset 0 stores index 1).
OwnershipWitness ==
  /\ Len(properties) = 2
  /\ Detached # {}
  /\ heap[properties[1]].myIdx = 1

\* C10: after a slot's Set(v), IsObject holds, IsIRI does not and the opaque
\* payload is cleared; after SetIRI(u), IsIRI holds, IsObject does not and the
\* payload is cleared; serialize then emits only the value just set.
MutualExclusivity ==
  /\ ret.op = "Set"
       => /\ IsObject(iter)
          /\ ~IsIRI(iter)
          /\ iter.unknown = None
          /\ serialize(iter) = [v |-> ObjSerialize(ret.val[1]), err |-> FALSE]
  /\ ret.op = "SetIRI"
       => /\ IsIRI(iter)
          /\ ~IsObject(iter)
          /\ iter.unknown = None
          /\ serialize(iter) =
               [v |-> [t |-> "string", v |-> UrlString(ret.val[1])], err |-> FALSE]

\* A structured value was written over a reference.
MutualExclusivityWitness ==
  /\ ret.op = "Set"
  /\ ret.was = "reference"
  /\ iter.ObjectMember = Some("o1")

\* The slots of the two containers compared.
LhsSlots == {cont.properties[k] : k \in 1 .. Len(cont.properties)}

RhsSlots == {other.properties[k] : k \in 1 .. Len(other.properties)}

\* x ranks strictly below y under the slot ordering.
Below(x, y) == IterLessThan(x, y) /\ ~IterLessThan(y, x)

\* C11: a Reference slot is less than an Opaque and than a Structured slot,
\* an Opaque slot is less than a Structured slot, never the reverse, and the
\* same holds for the single-element containers holding them; two References
\* compare by the order of their texts and two Opaque slots are never less
\* than one another.
RankSkeleton ==
  \A x \in LhsSlots, y \in RhsSlots :
    /\ (KindOf(x) = "reference" /\ KindOf(y) \in {"opaque", "structured"}) => Below(x, y)
    /\ (KindOf(x) = "opaque" /\ KindOf(y) = "structured") => Below(x, y)
    /\ (KindOf(x) = "reference" /\ KindOf(y) = "reference")
         => (IterLessThan(x, y) <=> StrLess(UrlString(x.iri[1]), UrlString(y.iri[1])))
    /\ (KindOf(x) = "opaque" /\ KindOf(y) = "opaque")
         => (~IterLessThan(x, y) /\ ~IterLessThan(y, x))
    /\ (Len(cont.properties) = 1 /\ Len(other.properties) = 1
          /\ <<KindOf(x), KindOf(y)>> \in
               {<<"reference", "opaque">>, <<"reference", "structured">>,
                <<"opaque", "structured">>})
         => (LessThan(cont, other) /\ ~LessThan(other, cont))
    /\ (ret.op = "LessThan" /\ Len(cont.properties) = 1 /\ Len(other.properties) = 1
          /\ KindOf(x) = "opaque" /\ KindOf(y) = "structured")
         => ret.val = Some(TRUE)

\* [y] was compared with [z], y Opaque and z Structured.
RankSkeletonWitness ==
  /\ ret.op = "LessThan"
  /\ Len(cont.properties) = 1
  /\ Len(other.properties) = 1
  /\ KindOf(cont.properties[1]) = "opaque"
  /\ KindOf(other.properties[1]) = "structured"
  /\ ret.val = Some(TRUE)

\* Neither container is less than the other.
Equiv(a, b) == ~LessThan(a, b) /\ ~LessThan(b, a)

\* C12: container LessThan is irreflexive and asymmetric, transitive, and
\* its equivalence "neither is less" is transitive, for containers of mixed
\* reference / opaque / structured content of any lengths.
StrictWeakOrder ==
  ret.op = "LessThan"
  => /\ ~LessThan(cont, cont)
     /\ ~(LessThan(cont, other) /\ LessThan(other, cont))
     /\ ret.val = Some(TRUE) => ~LessThan(other, cont)
     /\ ret.val = Some(TRUE)
          => \A c \in OrdContainers : LessThan(other, c) => LessThan(cont, c)
     /\ Equiv(cont, other)
          => \A c \in OrdContainers : Equiv(other, c) => Equiv(cont, c)

\* Two different containers of mixed kinds are equivalent: they differ in
\* an opaque payload only.
StrictWeakOrderWitness ==
  /\ ret.op = "LessThan"
  /\ cont # other
  /\ Len(cont.properties) = 2
  /\ KindOf(cont.properties[1]) = "opaque"
  /\ KindOf(cont.properties[2]) = "structured"
  /\ Len(other.properties) = 2
  /\ Equiv(cont, other)

\* The offsets (1-based) below both lengths at which the slots differ under
\* the slot ordering.
Differing(a, b) ==
  {k \in 1 .. Min(Len(a.properties), Len(b.properties)) :
     \/ IterLessThan(a.properties[k], b.properties[k])
     \/ IterLessThan(b.properties[k], a.properties[k])}

\* The smallest element of a non-empty set of numbers.
Least(S) == CHOOSE k \in S : \A j \in S : k <= j

\* The comparison decided by the first differing offset, else by length.
Lexicographic(a, b) ==
  IF Differing(a, b) = {} THEN Len(a.properties) < Len(b.properties)
  ELSE IterLessThan(a.properties[Least(Differing(a, b))],
                    b.properties[Least(Differing(a, b))])

\* C13: container LessThan is decided by the first offset below both lengths
\* at which the slots differ under slot LessThan, and by Len(A) < Len(B) when
\* there is none.
LexicographicOrder ==
  ret.op = "LessThan" => ret.val = Some(Lexicographic(cont, other))

\* The same two slots in the opposite order are not equivalent.
LexicographicWitness ==
  /\ ret.op = "LessThan"
  /\ ret.val = Some(TRUE)
  /\ Len(cont.properties) = 2
  /\ Len(other.properties) = 2
  /\ cont.properties[1] # cont.properties[2]
  /\ [cont.properties[1] EXCEPT !.myIdx = 1] = other.properties[2]
  /\ [cont.properties[2] EXCEPT !.myIdx = 0] = other.properties[1]

\* The value a slot holds, whichever variant it is.
ValueOf(s) == <<s.ObjectMember, s.unknown, s.iri>>

\* Offsets of the container before the step.
Offsets == 0 .. (Len(properties) - 1)

\* The effect of an in-range Remove(idx): idx is gone, the slots below it stay,
\* the slots above it move down by one, attached and with their values.
RemovedExactly(idx) ==
  /\ Len(properties') = Len(properties) - 1
  /\ \A k \in Offsets :
       /\ k < idx => properties'[k + 1] = properties[k + 1]
       /\ k > idx => properties'[k] = properties[k + 1]
       /\ k # idx => /\ heap'[properties[k + 1]].parent = This
                     /\ ValueOf(heap'[properties[k + 1]]) = ValueOf(heap[properties[k + 1]])
  /\ \A k \in 1 .. Len(properties') : properties'[k] # properties[idx + 1]

\* C14: Remove(i) for an in-range i deletes exactly the slot at i: the length
\* drops by one, slots below i stay in place, every slot above i is the same
\* slot object one position lower (attached, value unchanged), and the removed
\* slot is no longer in the sequence.
RemoveExact ==
  [][ret'.op = "Remove"
       => \A idx \in Offsets : Remove(idx) => RemovedExactly(idx)]_vars

\* AppendIRI(u), AppendObject(o), Remove(0): the one slot left is the second
\* slot object, still structured and attached, at index 0.
RemoveExactWitness ==
  /\ ret.op = "Remove"
  /\ Len(heap) = 2
  /\ properties = <<2>>
  /\ heap[1].parent = NoParent
  /\ IsIRI(heap[1])
  /\ IsObject(heap[2])
  /\ heap[2].myIdx = 0
  /\ heap[2].parent = This

\* The effect of an append: the new slot is last and no existing slot changed.
Appended(v) ==
  /\ Len(properties') = Len(properties) + 1
  /\ properties'[Len(properties) + 1] = NewId
  /\ ValueOf(heap'[NewId]) = v
  /\ \A k \in Offsets :
       /\ properties'[k + 1] = properties[k + 1]
       /\ heap'[properties[k + 1]] = heap[properties[k + 1]]

\* The effect of a prepend: the new slot is first and every existing slot is
\* one position higher, re-indexed, with its back-reference and value.
Prepended(v) ==
  /\ Len(properties') = Len(properties) + 1
  /\ properties'[1] = NewId
  /\ ValueOf(heap'[NewId]) = v
  /\ \A k \in Offsets :
       /\ properties'[k + 2] = properties[k + 1]
       /\ heap'[properties[k + 1]].myIdx = k + 1
       /\ heap'[properties[k + 1]].parent = heap[properties[k + 1]].parent
       /\ ValueOf(heap'[properties[k + 1]]) = ValueOf(heap[properties[k + 1]])

\* C15: AppendIRI / AppendObject put the new slot at position old-Len and
\* leave position, stored index, back-reference and value of every existing
\* slot unchanged; PrependIRI / PrependObject put the new slot at position 0
\* and move every existing slot from k to k+1 with stored index k+1, keeping
\* order, back-references and values.
AppendPrependShift ==
  [][ret'.op \in {"AppendIRI", "AppendObject", "PrependIRI", "PrependObject"}
       => /\ \A v \in ContainerURLs :
               /\ AppendIRI(v) => Appended(<<None, None, Some(v)>>)
               /\ PrependIRI(v) => Prepended(<<None, None, Some(v)>>)
          /\ \A v \in ContainerObjects :
               /\ AppendObject(v) => Appended(<<Some(v), None, None>>)
               /\ PrependObject(v) => Prepended(<<Some(v), None, None>>)]_vars

\* A prepend in front of two slots: the newest slot is first and the older
\* ones follow with stored indices 1 and 2.
AppendPrependWitness ==
  /\ ret.op \in {"PrependIRI", "PrependObject"}
  /\ Len(properties) = 3
  /\ properties[1] = Len(heap)
  /\ heap[properties[2]].myIdx = 1
  /\ heap[properties[3]].myIdx = 2

\* The effect of an in-range Swap(i, j).
Swapped(i, j) ==
  /\ properties'[i + 1] = properties[j + 1]
  /\ properties'[j + 1] = properties[i + 1]
  /\ heap'[properties[i + 1]].parent = heap[properties[i + 1]].parent
  /\ heap'[properties[j + 1]].parent = heap[properties[j + 1]].parent
  /\ Len(properties') = Len(properties)
  /\ \A k \in Offsets \ {i, j} :
       /\ properties'[k + 1] = properties[k + 1]
       /\ heap'[properties[k + 1]] = heap[properties[k + 1]]
  /\ i = j => UNCHANGED <<heap, properties>>

\* C16: Swap(i, j) for in-range i and j exchanges the two slots' positions
\* without detaching either, keeps the length, leaves every other slot
\* untouched, and Swap(i, i) changes nothing.
SwapExchanges ==
  [][ret'.op = "Swap"
       => \A i \in Offsets, j \in Offsets : Swap(i, j) => Swapped(i, j)]_vars

\* Three attached slots after Swap(0, 2): the outer two have changed places
\* (each still stores the other's offset), the middle one has not moved.
SwapExchangesWitness ==
  /\ ret.op = "Swap"
  /\ Len(properties) = 3
  /\ heap[properties[1]].myIdx = 2
  /\ heap[properties[2]].myIdx = 1
  /\ heap[properties[3]].myIdx = 0
  /\ \A k \in 1 .. 3 : heap[properties[k]].parent = This

\* Indices outside the container's range that the callers try: one below 0
\* and Len itself.
OutOfRange == {0 - 1, Len(properties)}

\* A call failed fast: it panicked with the bounds error and the sequence,
\* every stored index and every back-reference are as before.
FailedFast ==
  /\ ret'.panic
  /\ ret'.op = IndexOutOfRange
  /\ UNCHANGED <<heap, properties>>

\* C18: At, Remove, Set, SetIRI, Swap, KindIndex and Less called with an index
\* below 0 or at/above Len (Swap and Less with at least one such index) panic
\* and leave the sequence, every stored index and every back-reference as
\* they were: in no state can such a call take a step that does otherwise.
OutOfRangeFailsFast ==
  /\ \A idx \in OutOfRange :
       /\ ~ENABLED (CallAt(idx) /\ ~FailedFast)
       /\ ~ENABLED (Remove(idx) /\ ~FailedFast)
       /\ ~ENABLED (CallKindIndex(idx) /\ ~FailedFast)
       /\ \A v \in ContainerObjects : ~ENABLED (Set(idx, v) /\ ~FailedFast)
       /\ \A v \in ContainerURLs : ~ENABLED (SetIRI(idx, v) /\ ~FailedFast)
  /\ \A i \in Indices, j \in Indices :
       (~InRange(i) \/ ~InRange(j))
         => /\ ~ENABLED (Swap(i, j) /\ ~FailedFast)
            /\ ~ENABLED (CallLess(i, j) /\ ~FailedFast)

\* A bounds panic on a container of two attached slots.
OutOfRangeWitness ==
  /\ ret.panic
  /\ ret.op = IndexOutOfRange
  /\ Len(properties) = 2
  /\ Detached = {}

\* C19: starting from Begin() and calling Next() until End() visits the slots
\* at positions 0, 1, ..., Len-1 once each in that order; Next of the slot at
\* position k is the slot at k+1 (nil at the last position) and Prev is the
\* slot at k-1 (nil at position 0).
IterationComplete ==
  /\ Walk(Begin, MaxAlloc + 1) = properties
  /\ \A k \in 1 .. Len(properties) :
       /\ ~NextOf(properties[k]).panic
       /\ NextOf(properties[k]).it = (IF k = Len(properties) THEN End ELSE properties[k + 1])
       /\ ~PrevOf(properties[k]).panic
       /\ PrevOf(properties[k]).it = (IF k = 1 THEN End ELSE properties[k - 1])

\* The encoding the wire format prescribes for one slot.
Encoding(s) ==
  IF s.ObjectMember # None THEN ObjSerialize(s.ObjectMember[1])
  ELSE IF s.iri # None THEN [t |-> "string", v |-> UrlString(s.iri[1])]
  ELSE [t |-> "bytes", v |-> s.unknown[1]]

\* Some slot of the container holds a structured value whose encoder fails.
EncoderFails(c) ==
  \E k \in 1 .. Len(c.properties) :
    /\ c.properties[k].ObjectMember # None
    /\ ObjSerializeErr(c.properties[k].ObjectMember[1])

\* C17: Serialize returns an array of exactly Len elements whose k-th element
\* is the encoding of the slot at position k (reference: its text; structured:
\* the object's own Serialize output; opaque: the stored payload), and an
\* error of a structured value's encoder is returned, not swallowed.
SerializeInOrder ==
  ret.op = "Serialize"
    => IF EncoderFails(cont) THEN ret.err
       ELSE /\ ~ret.err
            /\ Len(ret.val[1]) = Len(cont.properties)
            /\ \A k \in 1 .. Len(cont.properties) :
                 ret.val[1][k] = Encoding(cont.properties[k])

\* A structured value followed by a reference is encoded as a map followed by
\* the reference's text.
SerializeInOrderWitness ==
  /\ ret.op = "Serialize"
  /\ ~ret.err
  /\ Len(cont.properties) = 2
  /\ cont.properties[1].ObjectMember # None
  /\ cont.properties[2].iri # None
  /\ ret.val[1][1].t = "map"
  /\ ret.val[1][2] = [t |-> "string", v |-> "https://ex/2"]

\* The last call named an accessor for a kind index the generator has.
NamedFor(op) ==
  /\ ret.op = op
  /\ ret.val[1].i >= 0
  /\ ret.val[1].i < Len(gen.Kinds)

\* The camel-case name of the kind the last call was about.
CamelOfCall == gen.Kinds[ret.val[1].i + 1].Name.CamelName

\* The get and set names: unqualified for one kind, kind-qualified for more.
GetSetNaming ==
  /\ NamedFor("getFnName")
       => /\ ~ret.panic
          /\ ret.val[1].name =
               (IF Len(gen.Kinds) = 1 THEN "Get" ELSE "Get" \o CamelOfCall)
  /\ NamedFor("setFnName")
       => /\ ~ret.panic
          /\ ret.val[1].name =
               (IF Len(gen.Kinds) = 1 THEN "Set" ELSE "Set" \o CamelOfCall)

\* C20 (as stated): for a property with exactly one kind the get, set and is
\* names are all unqualified ("Get", "Set", "Is"); with more than one kind
\* each is qualified with the kind's camel-case name, for every kind index.
AccessorNamingUnqualifiedIs ==
  /\ GetSetNaming
  /\ NamedFor("isMethodName")
       => /\ ~ret.panic
          /\ ret.val[1].name =
               (IF Len(gen.Kinds) = 1 THEN "Is" ELSE "Is" \o CamelOfCall)

\* C20 (amended): the get and set names are unqualified for a property with
\* exactly one kind and kind-qualified for more; the is name is always
\* qualified with the kind's camel-case name, also for a single kind.
AccessorNaming ==
  /\ GetSetNaming
  /\ NamedFor("isMethodName")
       => /\ ~ret.panic
          /\ ret.val[1].name = "Is" \o CamelOfCall

\* A property with the single kind Object names its test "IsObject".
AccessorNamingWitness ==
  /\ ret.op = "isMethodName"
  /\ Len(gen.Kinds) = 1
  /\ ret.val[1].i = 0
  /\ ret.val[1].name = "IsObject"

\* How many of the three variants a slot has set.
Variants(s) ==
  (IF s.ObjectMember # None THEN 1 ELSE 0)
    + (IF s.iri # None THEN 1 ELSE 0)
    + (IF s.unknown # None THEN 1 ELSE 0)

\* C21: every slot the element decoder produced, and every slot then written
\* by Set or SetIRI, has exactly one of structured value, reference and opaque
\* payload set: never two at once and never none.
ExactlyOneVariant ==
  ((ret.op = "deserialize" /\ ~ret.err) \/ ret.op \in {"Set", "SetIRI"})
    => Variants(iter) = 1

\* The rank the wire format gives a slot: reference -2, structured 0, else -1.
RankOf(s) ==
  IF s.iri # None THEN 0 - 2 ELSE IF s.ObjectMember # None THEN 0 ELSE 0 - 1

\* C22: KindIndex of a slot is -2 for a reference, 0 for a structured value
\* and -1 otherwise, and for all in-range i, j the positional Less(i, j) gives
\* the same result as properties[i].LessThan(properties[j]).
ComparatorsAgree ==
  /\ ret.op = "KindIndex"
       => ret.val[1].r = RankOf(cont.properties[ret.val[1].i + 1])
  /\ ret.op = "Less"
       => ret.val[1].r = IterLessThan(cont.properties[ret.val[1].i + 1],
                                      cont.properties[ret.val[1].j + 1])

\* Two references at different positions, told apart by their text alone.
ComparatorsAgreeWitness ==
  /\ ret.op = "Less"
  /\ ret.val[1].i # ret.val[1].j
  /\ cont.properties[ret.val[1].i + 1].iri # None
  /\ cont.properties[ret.val[1].j + 1].iri # None
  /\ ret.val[1].r

\* The step wrote the value of the slot object h and nothing else.
WroteOnly(h) ==
  /\ properties' = properties
  /\ Len(heap') = Len(heap)
  /\ \A g \in Handles \ {h} : heap'[g] = heap[g]
  /\ heap'[h].myIdx = heap[h].myIdx
  /\ heap'[h].parent = heap[h].parent
  /\ heap'[h].alias = heap[h].alias

\* The slot object h holds exactly the value the write stored.
HoldsNew(h) ==
  /\ heap'[h].unknown = None
  /\ \/ /\ ret'.op = "Iterator.Set"
        /\ heap'[h].ObjectMember \in {Some(v) : v \in ContainerObjects}
        /\ heap'[h].iri = None
     \/ /\ ret'.op = "Iterator.SetIRI"
        /\ heap'[h].iri \in {Some(v) : v \in ContainerURLs}
        /\ heap'[h].ObjectMember = None

\* C23: Set(v) or SetIRI(u) on a slot handle changes only that slot's value:
\* its stored index and back-reference, the container's length, and the
\* identity, position and value of every other slot are unchanged, and the new
\* value is the one read through the container at that slot's position.
SlotWriteFrame ==
  [][ret'.op \in {"Iterator.Set", "Iterator.SetIRI"}
       => \E h \in Handles : WroteOnly(h) /\ HoldsNew(h)]_vars

\* A slot of a two-slot container given a structured value by a write through
\* its handle, next to a slot that is a reference.
SlotWriteFrameWitness ==
  /\ ret.op = "Iterator.Set"
  /\ Len(properties) = 2
  /\ \E k \in 1 .. 2 :
       /\ IsObject(heap[properties[k]])
       /\ IsIRI(heap[properties[3 - k]])

\* C24: hasMemberName(i) panics whenever the kind at index i is nilable,
\* whether the generator has one kind or several, and returns
\* "has<KindCamelName>Member" only for a kind that is not nilable.
HasMemberNameNilablePanics ==
  NamedFor("hasMemberName")
    => IF gen.Kinds[ret.val[1].i + 1].Nilable
         THEN ret.panic
         ELSE /\ ~ret.panic
              /\ ret.val[1].name = "has" \o CamelOfCall \o "Member"

====
